---- MODULE Spec2Model ----
(***************************************************************************)
(* Model of the Porkbun provider of external-dns-porkbun-webhook           *)
(* (provider/porkbun.go): the constructor, the zone matcher, the record    *)
(* matcher, the endpoint-to-record converter, the no-op TXT suppressor,    *)
(* the ApplyChanges planner and Records.                                   *)
(*                                                                         *)
(* Go strings are modelled as sequences of one-character strings, so that  *)
(* strings.HasSuffix, strings.TrimSuffix, strings.HasPrefix, strings.Trim, *)
(* strconv.Atoi and strconv.FormatInt are computed character by character. *)
(***************************************************************************)
EXTENDS Integers, Sequences, FiniteSets, TLC

VARIABLES
    zones,           \* p.domainFilter.Filters: the configured zones, in order
    dryRun,          \* p.dryRun
    changes,         \* the caller's *plan.Changes
    pc,              \* position of the ApplyChanges call
    perZoneChanges,  \* map zone -> *plan.Changes built by ApplyChanges
    pending,         \* keys of perZoneChanges the range loop has not visited
    order,           \* zones in the order the range loop visited them
    curZone,         \* zone applyChangesToZone is working on
    recs,            \* map zone -> records returned by this call's list call
    queue,           \* provider writes applyChangesToZone has still to issue
    calls,           \* provider calls issued by this ApplyChanges call
    zoneErr,         \* map zone -> error applyChangesToZone returned
    firstErr,        \* firstErr of ApplyChanges
    result,          \* value ApplyChanges returned
    callNo,          \* how many times ApplyChanges has been called
    endpoints,       \* the endpoints Records has collected
    rIdx,            \* index in zones of the next zone Records lists
    ctxDoneAt,       \* calls issued when ctx was cancelled, -1 while it is live
    fnPc,            \* position of a direct call of a helper function
    fnArgs,          \* arguments of that call
    fnRet            \* value the helper returned

vars == <<zones, dryRun, changes, pc, perZoneChanges, pending, order, curZone,
          recs, queue, calls, zoneErr, firstErr, result, callNo, endpoints,
          rIdx, ctxDoneAt, fnPc, fnArgs, fnRet>>

planVars == <<zones, dryRun, changes, pc, perZoneChanges, pending, order,
              curZone, recs, queue, calls, zoneErr, firstErr, result, callNo,
              endpoints, rIdx, ctxDoneAt>>

fnVars == <<fnPc, fnArgs, fnRet>>

----------------------------------------------------------------------------
(* Bounds of the model.                                                    *)

\* longest generated zone handed to endpointZoneName; names are one longer
MaxStrLen == 2
\* most zones in a list handed to endpointZoneName
MaxZones == 2
\* most endpoints in one caller batch (all four lists together)
MaxBatch == 2
\* most records in a list handed to getIDforRecord
MaxRecs == 2
\* most entries in each update list handed to removeNoopTXTUpdates
MaxUpd == 2
\* most update pairs in a batch of unchanged TXT updates
MaxPairs == 2
\* most consecutive ApplyChanges calls on the same batch
MaxCalls == 2
\* most endpoints in a list handed to convertToPorkbunRecord
MaxConv == 2

----------------------------------------------------------------------------
(* Go string helpers.                                                      *)

\* the empty Go string
Empty == <<>>

\* strings.HasSuffix
HasSuffix(s, suffix) ==
    /\ Len(s) >= Len(suffix)
    /\ SubSeq(s, Len(s) - Len(suffix) + 1, Len(s)) = suffix

\* strings.HasPrefix
HasPrefix(s, prefix) ==
    /\ Len(s) >= Len(prefix)
    /\ SubSeq(s, 1, Len(prefix)) = prefix

\* strings.TrimSuffix
TrimSuffix(s, suffix) ==
    IF HasSuffix(s, suffix) THEN SubSeq(s, 1, Len(s) - Len(suffix)) ELSE s

RECURSIVE TrimLeft(_, _)
TrimLeft(s, ch) ==
    IF s # <<>> /\ Head(s) = ch THEN TrimLeft(Tail(s), ch) ELSE s

RECURSIVE TrimRight(_, _)
TrimRight(s, ch) ==
    IF s # <<>> /\ s[Len(s)] = ch
    THEN TrimRight(SubSeq(s, 1, Len(s) - 1), ch)
    ELSE s

\* strings.Trim with a one-character cutset
Trim(s, ch) == TrimRight(TrimLeft(s, ch), ch)

Digits == <<"0", "1", "2", "3", "4", "5", "6", "7", "8", "9">>

DigitVal(ch) == (CHOOSE i \in 1..10 : Digits[i] = ch) - 1

IsDigit(ch) == \E i \in 1..10 : Digits[i] = ch

RECURSIVE DigitsVal(_)
DigitsVal(s) ==
    IF s = <<>> THEN 0
    ELSE 10 * DigitsVal(SubSeq(s, 1, Len(s) - 1)) + DigitVal(s[Len(s)])

\* strconv.Atoi: an optional sign followed by one or more decimal digits
Atoi(s) ==
    LET signed == s # <<>> /\ Head(s) \in {"+", "-"}
        body   == IF signed THEN Tail(s) ELSE s
    IN  IF body # <<>> /\ \A i \in 1..Len(body) : IsDigit(body[i])
        THEN [ok  |-> TRUE,
              val |-> IF signed /\ Head(s) = "-"
                      THEN 0 - DigitsVal(body) ELSE DigitsVal(body)]
        ELSE [ok |-> FALSE, val |-> 0]

RECURSIVE FormatNat(_)
FormatNat(n) ==
    IF n < 10 THEN <<Digits[n + 1]>>
    ELSE FormatNat(n \div 10) \o <<Digits[(n % 10) + 1]>>

\* strconv.FormatInt(n, 10)
FormatInt(n) == IF n < 0 THEN <<"-">> \o FormatNat(0 - n) ELSE FormatNat(n)

----------------------------------------------------------------------------
(* Data: endpoint.Endpoint is [DNSName, RecordType, Targets, RecordTTL],   *)
(* pb.Record is [ID, Name, Type, Content, TTL], plan.Changes is            *)
(* [Create, UpdateOld, UpdateNew, Delete].                                 *)

\* endpoint.RecordTypeTXT
RecordTypeTXT == "TXT"

\* endpoint.RecordTypeA
RecordTypeA == "A"

\* &plan.Changes{}
EmptyChanges == [Create |-> <<>>, UpdateOld |-> <<>>, UpdateNew |-> <<>>,
                 Delete |-> <<>>]

\* a check that never reports an empty batch
HasChanges_always(c) == TRUE

\* plan.Changes.HasChanges of sigs.k8s.io/external-dns: creates or deletes
\* exist, or the two update lists differ
HasChanges(c) ==
    \/ Len(c.Create) > 0
    \/ Len(c.Delete) > 0
    \/ c.UpdateNew # c.UpdateOld

----------------------------------------------------------------------------
(* Zone Matcher.                                                           *)

\* the loop of endpointZoneName: zs are the zones still to look at
RECURSIVE ZoneScan(_, _, _)
ZoneScan(dnsName, zs, matchZoneName) ==
    IF zs = <<>> THEN matchZoneName
    ELSE ZoneScan(dnsName, Tail(zs),
                  IF /\ HasSuffix(dnsName, Head(zs))
                     /\ Len(Head(zs)) > Len(matchZoneName)
                  THEN Head(zs) ELSE matchZoneName)

\* a matcher that keeps the first zone that is a suffix
RECURSIVE FirstSuffixZone(_, _)
FirstSuffixZone(dnsName, zs) ==
    IF zs = <<>> THEN Empty
    ELSE IF HasSuffix(dnsName, Head(zs)) THEN Head(zs)
    ELSE FirstSuffixZone(dnsName, Tail(zs))

endpointZoneName_first(ep, zs) == FirstSuffixZone(ep.DNSName, zs)

endpointZoneName(ep, zs) == ZoneScan(ep.DNSName, zs, Empty)

----------------------------------------------------------------------------
(* Record Matcher.                                                         *)

\* a matcher that ignores the strict flag
RECURSIVE getIDforRecord_relaxed(_, _, _, _, _)
getIDforRecord_relaxed(recordName, target, recordType, rs, strict) ==
    IF rs = <<>> THEN Empty
    ELSE IF Head(rs).Type # recordType \/ Head(rs).Name # recordName
    THEN getIDforRecord_relaxed(recordName, target, recordType, Tail(rs), strict)
    ELSE Head(rs).ID

\* a matcher that answers "0" when no record qualifies
RECURSIVE getIDforRecord_zero(_, _, _, _, _)
getIDforRecord_zero(recordName, target, recordType, rs, strict) ==
    IF rs = <<>> THEN <<"0">>
    ELSE IF Head(rs).Type # recordType \/ Head(rs).Name # recordName
    THEN getIDforRecord_zero(recordName, target, recordType, Tail(rs), strict)
    ELSE IF strict /\ target # Head(rs).Content
    THEN getIDforRecord_zero(recordName, target, recordType, Tail(rs), strict)
    ELSE Head(rs).ID

RECURSIVE getIDforRecord(_, _, _, _, _)
getIDforRecord(recordName, target, recordType, rs, useStrictMatchForDelete) ==
    IF rs = <<>> THEN Empty
    ELSE IF Head(rs).Type # recordType \/ Head(rs).Name # recordName
    THEN getIDforRecord(recordName, target, recordType, Tail(rs),
                        useStrictMatchForDelete)
    ELSE IF useStrictMatchForDelete /\ target # Head(rs).Content
    THEN getIDforRecord(recordName, target, recordType, Tail(rs),
                        useStrictMatchForDelete)
    ELSE Head(rs).ID

----------------------------------------------------------------------------
(* No-op Suppressor.                                                       *)

\* the key of oldMap
NoopKey(ep) == <<ep.DNSName, ep.Targets[1]>>

\* whether the first loop of removeNoopTXTUpdates stores ep in oldMap
Keyed(ep) == ep.RecordType = RecordTypeTXT /\ Len(ep.Targets) > 0

\* oldMap after the first loop: a later entry overwrites an earlier one
\* stored under the same key
RECURSIVE OldMap(_)
OldMap(updateOld) ==
    IF updateOld = <<>> THEN <<>>
    ELSE LET n    == Len(updateOld)
             ep   == updateOld[n]
             rest == OldMap(SubSeq(updateOld, 1, n - 1))
         IN  IF ~Keyed(ep) THEN rest
             ELSE [k \in (DOMAIN rest) \cup {NoopKey(ep)} |->
                      IF k = NoopKey(ep) THEN ep ELSE rest[k]]

\* the second loop: the entries of updateNew that are kept
RECURSIVE FilterUpdateNew(_, _)
FilterUpdateNew(updateNew, oldMap) ==
    IF updateNew = <<>> THEN <<>>
    ELSE LET ep   == Head(updateNew)
             rest == FilterUpdateNew(Tail(updateNew), oldMap)
         IN  IF ep.RecordType # RecordTypeTXT \/ Len(ep.Targets) = 0
             THEN <<ep>> \o rest
             ELSE IF /\ NoopKey(ep) \in DOMAIN oldMap
                     /\ oldMap[NoopKey(ep)].RecordTTL = ep.RecordTTL
             THEN rest
             ELSE <<ep>> \o rest

\* a suppressor that also empties the update-old list
removeNoopTXTUpdates_dropOld(c) ==
    IF Len(c.UpdateOld) = 0 \/ Len(c.UpdateNew) = 0 THEN c
    ELSE [c EXCEPT !.UpdateNew = FilterUpdateNew(c.UpdateNew,
                                                 OldMap(c.UpdateOld)),
                   !.UpdateOld = <<>>]

\* removeNoopTXTUpdates: the value of *c when it returns
removeNoopTXTUpdates(c) ==
    IF Len(c.UpdateOld) = 0 \/ Len(c.UpdateNew) = 0 THEN c
    ELSE [c EXCEPT !.UpdateNew = FilterUpdateNew(c.UpdateNew, OldMap(c.UpdateOld))]

----------------------------------------------------------------------------
(* Endpoint-to-Record Converter.                                           *)

\* the literal "\"heritage="
HeritagePrefix == <<"\"", "h", "e", "r", "i", "t", "a", "g", "e", "=">>

\* a converter that keeps the fully qualified name as the record name
ConvertOne_fqdn(rs, ep, zoneName, useStrictMatchForDelete) ==
    [Type    |-> ep.RecordType,
     Name    |-> ep.DNSName,
     TTL     |-> FormatInt(ep.RecordTTL),
     Content |-> IF /\ ep.RecordType = RecordTypeTXT
                    /\ HasPrefix(ep.Targets[1], HeritagePrefix)
                 THEN Trim(ep.Targets[1], "\"")
                 ELSE ep.Targets[1],
     ID      |-> getIDforRecord(ep.DNSName, ep.Targets[1], ep.RecordType, rs,
                                useStrictMatchForDelete)]

\* a converter that looks the identifier up under the zone-relative name
ConvertOne_relName(rs, ep, zoneName, useStrictMatchForDelete) ==
    LET recordName == IF ep.DNSName = zoneName THEN Empty
                      ELSE TrimSuffix(ep.DNSName, <<".">> \o zoneName)
        target     == IF /\ ep.RecordType = RecordTypeTXT
                         /\ HasPrefix(ep.Targets[1], HeritagePrefix)
                      THEN Trim(ep.Targets[1], "\"")
                      ELSE ep.Targets[1]
    IN  [Type    |-> ep.RecordType,
         Name    |-> recordName,
         TTL     |-> FormatInt(ep.RecordTTL),
         Content |-> target,
         ID      |-> getIDforRecord(recordName, target, ep.RecordType, rs,
                                    useStrictMatchForDelete)]

\* the record convertToPorkbunRecord builds for one endpoint with targets
ConvertOne(rs, ep, zoneName, useStrictMatchForDelete) ==
    LET fqdn       == ep.DNSName
        recordName == IF fqdn = zoneName THEN Empty
                      ELSE TrimSuffix(fqdn, <<".">> \o zoneName)
        target     == IF /\ ep.RecordType = RecordTypeTXT
                         /\ HasPrefix(ep.Targets[1], HeritagePrefix)
                      THEN Trim(ep.Targets[1], "\"")
                      ELSE ep.Targets[1]
    IN  [Type    |-> ep.RecordType,
         Name    |-> recordName,
         TTL     |-> FormatInt(ep.RecordTTL),
         Content |-> target,
         ID      |-> getIDforRecord(fqdn, target, ep.RecordType, rs,
                                    useStrictMatchForDelete)]

\* a converter that emits one record per target of an endpoint
RECURSIVE convertToPorkbunRecord_perTarget(_, _, _, _)
convertToPorkbunRecord_perTarget(rs, eps, zoneName, strict) ==
    IF eps = <<>> THEN <<>>
    ELSE LET ep == Head(eps)
         IN  [k \in 1..Len(ep.Targets) |->
                ConvertOne(rs, [ep EXCEPT !.Targets = <<ep.Targets[k]>>],
                           zoneName, strict)]
             \o convertToPorkbunRecord_perTarget(rs, Tail(eps), zoneName,
                                                 strict)

RECURSIVE convertToPorkbunRecord(_, _, _, _)
convertToPorkbunRecord(rs, eps, zoneName, useStrictMatchForDelete) ==
    IF eps = <<>> THEN <<>>
    ELSE LET rest == convertToPorkbunRecord(rs, Tail(eps), zoneName,
                                            useStrictMatchForDelete)
         IN  IF Len(Head(eps).Targets) = 0 THEN rest
             ELSE <<ConvertOne(rs, Head(eps), zoneName,
                               useStrictMatchForDelete)>> \o rest

----------------------------------------------------------------------------
(* The inputs the model draws from.                                        *)

\* zone "x.o"
ZoneXO == <<"x", ".", "o">>

\* zone "s.x.o", nested in "x.o"
ZoneSXO == <<"s", ".", "x", ".", "o">>

\* "f.x.o"
NameFXO == <<"f", ".", "x", ".", "o">>

\* "f.s.x.o"
NameFSXO == <<"f", ".", "s", ".", "x", ".", "o">>

\* "fx.o": ends with "x.o", not with ".x.o"
NameFxO == <<"f", "x", ".", "o">>

\* "n.z", in no zone
NameNZ == <<"n", ".", "z">>

\* "\"heritage=o\""
QuotedHeritage == HeritagePrefix \o <<"o", "\"">>

\* the zone lists a provider is configured with
ZoneConfigs == {<<ZoneXO>>, <<ZoneXO, ZoneSXO>>, <<ZoneSXO, ZoneXO>>}

Endpoint(name, type, targets, ttl) ==
    [DNSName |-> name, RecordType |-> type, Targets |-> targets,
     RecordTTL |-> ttl]

\* the endpoints a caller batch is made of
Endpoints ==
    { Endpoint(NameFXO,  RecordTypeA,   <<<<"1">>>>, 300),
      Endpoint(NameFSXO, RecordTypeA,   <<<<"1">>>>, 300),
      Endpoint(ZoneXO,   RecordTypeTXT, <<<<"v">>>>, 300),
      Endpoint(NameFXO,  RecordTypeA,   <<>>, 300),
      Endpoint(NameNZ,   RecordTypeA,   <<<<"1">>>>, 300) }

Record(id, name, type, content, ttl) ==
    [ID |-> id, Name |-> name, Type |-> type, Content |-> content, TTL |-> ttl]

\* the record lists the provider's list call may answer with
ListResponses ==
    { <<>>,
      << Record(<<"6">>, NameFXO,  RecordTypeA,   <<"2">>, <<"3", "0", "0">>),
         Record(<<"7">>, NameFXO,  RecordTypeA,   <<"1">>, <<"3", "0", "0">>),
         Record(<<"8">>, ZoneXO,   RecordTypeTXT, <<"v">>, <<"3", "0", "0">>),
         Record(<<"1", "2">>, NameFSXO, RecordTypeA, <<"1">>, <<"3", "0", "0">>) >>,
      << Record(<<"x">>, NameFXO,  RecordTypeA,   <<"1">>, <<"3", "0", "0">>),
         Record(<<>>,    NameFSXO, RecordTypeA,   <<"1">>, <<"3", "0", "0">>),
         Record(<<"9">>, NameFSXO, RecordTypeTXT, <<"h">>, <<"6", "0", "0">>) >> }

ChangeKinds == {"Create", "UpdateOld", "UpdateNew", "Delete"}

\* the endpoints of one kind among items, in order
KindList(items, kind) ==
    LET sel == SelectSeq(items, LAMBDA it : it.kind = kind)
    IN  [i \in 1..Len(sel) |-> sel[i].ep]

\* every plan.Changes holding at most MaxBatch endpoints
Batches ==
    { [Create    |-> KindList(items, "Create"),
       UpdateOld |-> KindList(items, "UpdateOld"),
       UpdateNew |-> KindList(items, "UpdateNew"),
       Delete    |-> KindList(items, "Delete")] :
      items \in UNION { [1..n -> [kind : ChangeKinds, ep : Endpoints]] :
                        n \in 0..MaxBatch } }

----------------------------------------------------------------------------
(* Errors and provider calls.                                              *)

\* a nil error
NoErr == <<>>

\* the result of a call that has not returned
Unset == <<"unset">>

\* the error a failed step op of zone returns
Err(zone, op) == <<zone, op>>

\* one call of the provider client
Call(op, zone, id, rec, ok) ==
    [op |-> op, zone |-> zone, id |-> id, rec |-> rec, ok |-> ok]

Range(s) == {s[i] : i \in 1..Len(s)}

\* the zone set of a freshly constructed provider has no entry yet
NoMap == <<>>

\* ctx.Done() is closed
CtxDone == ctxDoneAt >= 0

\* what a call of the provider client may return: an error only, once ctx
\* is cancelled
Outcomes == IF CtxDone THEN {FALSE} ELSE BOOLEAN

----------------------------------------------------------------------------
(* Construction.                                                           *)

\* a nil *slog.Logger
NilLogger == "nil"

\* a *slog.Logger
SomeLogger == "logger"

\* a nil *PorkbunProvider
NilProvider == <<>>

\* endpoint.DomainFilter.IsConfigured of sigs.k8s.io/external-dns, for
\* filters that are not empty strings: there is at least one
IsConfigured(filters) == Len(filters) > 0

\* a constructor that does not look at the API secret
NewPorkbunProvider_noSecret(domainFilterList, apiKey, apiSecret, dry, logger) ==
    IF logger = NilLogger \/ ~IsConfigured(domainFilterList) \/ apiKey = Empty
    THEN [p |-> NilProvider, err |-> TRUE]
    ELSE [p   |-> [domainFilter |-> domainFilterList, dryRun |-> dry,
                   logger |-> logger, client |-> <<apiSecret, apiKey>>],
          err |-> FALSE]

\* NewPorkbunProvider: the provider and whether an error is returned
NewPorkbunProvider(domainFilterList, apiKey, apiSecret, dry, logger) ==
    IF logger = NilLogger THEN [p |-> NilProvider, err |-> TRUE]
    ELSE IF ~IsConfigured(domainFilterList)
    THEN [p |-> NilProvider, err |-> TRUE]
    ELSE IF apiKey = Empty THEN [p |-> NilProvider, err |-> TRUE]
    ELSE IF apiSecret = Empty THEN [p |-> NilProvider, err |-> TRUE]
    ELSE [p   |-> [domainFilter |-> domainFilterList, dryRun |-> dry,
                   logger |-> logger, client |-> <<apiSecret, apiKey>>],
          err |-> FALSE]

----------------------------------------------------------------------------
(* Change Planner: ApplyChanges and applyChangesToZone.                    *)

\* one of the four routing loops of ApplyChanges
RECURSIVE RouteList(_, _, _, _)
RouteList(eps, zs, kind, pz) ==
    IF eps = <<>> THEN pz
    ELSE LET zoneName == endpointZoneName(Head(eps), zs)
         IN  RouteList(Tail(eps), zs, kind,
                       IF zoneName = Empty THEN pz
                       ELSE [pz EXCEPT ![zoneName][kind] =
                                Append(@, Head(eps))])

\* a routing loop that files an endpoint under every zone that is a suffix
RECURSIVE RouteList_all(_, _, _, _)
RouteList_all(eps, zs, kind, pz) ==
    IF eps = <<>> THEN pz
    ELSE RouteList_all(Tail(eps), zs, kind,
            [z \in DOMAIN pz |->
                IF HasSuffix(Head(eps).DNSName, z)
                THEN [pz[z] EXCEPT ![kind] = Append(@, Head(eps))]
                ELSE pz[z]])

\* a partition that files an endpoint under every zone that is a suffix
Partition_all(c, zs) ==
    LET pz0 == [z \in Range(zs) |-> EmptyChanges]
        pz1 == RouteList_all(c.Create, zs, "Create", pz0)
        pz2 == RouteList_all(c.UpdateOld, zs, "UpdateOld", pz1)
        pz3 == RouteList_all(c.UpdateNew, zs, "UpdateNew", pz2)
    IN  RouteList_all(c.Delete, zs, "Delete", pz3)

\* perZoneChanges once the four loops have run
Partition(c, zs) ==
    LET pz0 == [z \in Range(zs) |-> EmptyChanges]
        pz1 == RouteList(c.Create, zs, "Create", pz0)
        pz2 == RouteList(c.UpdateOld, zs, "UpdateOld", pz1)
        pz3 == RouteList(c.UpdateNew, zs, "UpdateNew", pz2)
    IN  RouteList(c.Delete, zs, "Delete", pz3)

\* the writes of one kind, one per converted record
Writes(op, rs) == [i \in 1..Len(rs) |-> [op |-> op, rec |-> rs[i]]]

\* a planner that issues the creates before the deletes
PlannedWrites_createFirst(c, rs, zone) ==
    Writes("create", convertToPorkbunRecord(rs, c.Create, zone, FALSE))
    \o Writes("delete", convertToPorkbunRecord(rs, c.Delete, zone, TRUE))
    \o Writes("update", convertToPorkbunRecord(rs, c.UpdateNew, zone, FALSE))

\* a planner that resolves the delete set with relaxed matching
PlannedWrites_relaxedDelete(c, rs, zone) ==
    Writes("delete", convertToPorkbunRecord(rs, c.Delete, zone, FALSE))
    \o Writes("create", convertToPorkbunRecord(rs, c.Create, zone, FALSE))
    \o Writes("update", convertToPorkbunRecord(rs, c.UpdateNew, zone, FALSE))

\* the provider writes applyChangesToZone issues for c, in order, when the
\* list call answered rs
PlannedWrites(c, rs, zone) ==
    Writes("delete", convertToPorkbunRecord(rs, c.Delete, zone, TRUE))
    \o Writes("create", convertToPorkbunRecord(rs, c.Create, zone, FALSE))
    \o Writes("update", convertToPorkbunRecord(rs, c.UpdateNew, zone, FALSE))

\* the state of an ApplyChanges call that has returned err
Returned(err) ==
    /\ pc' = "done"
    /\ result' = err

\* a loop that stops at the first zone that fails
ZoneFailed_break(zone, err, rest) ==
    /\ zoneErr' = [zoneErr EXCEPT ![zone] = err]
    /\ firstErr' = IF firstErr = NoErr THEN err ELSE firstErr
    /\ pending' = {}
    /\ pc' = "zones"
    /\ queue' = <<>>

\* a loop that reports the last error instead of the first
ZoneFailed_lastErr(zone, err, rest) ==
    /\ zoneErr' = [zoneErr EXCEPT ![zone] = err]
    /\ firstErr' = err
    /\ pending' = rest
    /\ pc' = "zones"
    /\ queue' = <<>>

\* applyChangesToZone returned err for zone: the loop records it and
\* continues with the zones in rest
ZoneFailed(zone, err, rest) ==
    /\ zoneErr' = [zoneErr EXCEPT ![zone] = err]
    /\ firstErr' = IF firstErr = NoErr THEN err ELSE firstErr
    /\ pending' = rest
    /\ pc' = "zones"
    /\ queue' = <<>>

\* an ApplyChanges that goes on to the zones when its login failed
ApplyChangesOn_ignoreLogin(c) ==
    /\ changes' = c
    /\ callNo' = callNo + 1
    /\ order' = <<>>
    /\ firstErr' = NoErr
    /\ curZone' = Empty
    /\ queue' = <<>>
    /\ endpoints' = <<>>
    /\ rIdx' = 0
    /\ UNCHANGED <<zones, dryRun, ctxDoneAt, fnVars>>
    /\ IF ~HasChanges(c) \/ dryRun
       THEN /\ Returned(NoErr)
            /\ calls' = <<>>
            /\ perZoneChanges' = IF dryRun /\ HasChanges(c)
                                 THEN Partition(c, zones) ELSE NoMap
            /\ pending' = {}
            /\ recs' = NoMap
            /\ zoneErr' = NoMap
       ELSE \E ok \in Outcomes :
            /\ calls' = <<Call("ping", Empty, 0, <<>>, ok)>>
            /\ perZoneChanges' = Partition(c, zones)
            /\ pending' = Range(zones)
            /\ recs' = [z \in Range(zones) |-> <<>>]
            /\ zoneErr' = [z \in Range(zones) |-> NoErr]
            /\ pc' = "zones"
            /\ result' = Unset

\* ApplyChanges called with batch c, up to the range loop over perZoneChanges
ApplyChangesOn(c) ==
    /\ changes' = c
    /\ callNo' = callNo + 1
    /\ order' = <<>>
    /\ firstErr' = NoErr
    /\ curZone' = Empty
    /\ queue' = <<>>
    /\ endpoints' = <<>>
    /\ rIdx' = 0
    /\ UNCHANGED <<zones, dryRun, ctxDoneAt, fnVars>>
    /\ IF ~HasChanges(c)
       THEN /\ Returned(NoErr)
            /\ calls' = <<>>
            /\ perZoneChanges' = NoMap
            /\ pending' = {}
            /\ recs' = NoMap
            /\ zoneErr' = NoMap
       ELSE IF dryRun
       THEN /\ Returned(NoErr)
            /\ calls' = <<>>
            /\ perZoneChanges' = Partition(c, zones)
            /\ pending' = {}
            /\ recs' = NoMap
            /\ zoneErr' = NoMap
       ELSE \E ok \in Outcomes :
            /\ calls' = <<Call("ping", Empty, 0, <<>>, ok)>>
            /\ IF ~ok
               THEN /\ Returned(Err(Empty, "ping"))
                    /\ perZoneChanges' = NoMap
                    /\ pending' = {}
                    /\ recs' = NoMap
                    /\ zoneErr' = NoMap
               ELSE /\ perZoneChanges' = Partition(c, zones)
                    /\ pending' = Range(zones)
                    /\ recs' = [z \in Range(zones) |-> <<>>]
                    /\ zoneErr' = [z \in Range(zones) |-> NoErr]
                    /\ pc' = "zones"
                    /\ result' = Unset

\* the caller applies a batch
ApplyChanges ==
    /\ pc = "idle"
    /\ \E c \in Batches : ApplyChangesOn(c)

\* a loop that lists a zone even when nothing is left to do for it
NextZone_listAlways ==
    /\ pc = "zones"
    /\ \E zoneName \in pending :
        LET c    == perZoneChanges[zoneName]
            c2   == removeNoopTXTUpdates(c)
            rest == pending \ {zoneName}
        IN  /\ order' = Append(order, zoneName)
            /\ UNCHANGED <<zones, dryRun, ctxDoneAt, changes, result, callNo,
                           endpoints, rIdx, fnVars>>
            /\ IF ~HasChanges(c)
               THEN /\ pending' = rest
                    /\ UNCHANGED <<pc, perZoneChanges, curZone, recs, queue,
                                   calls, zoneErr, firstErr>>
               ELSE /\ perZoneChanges' = [perZoneChanges EXCEPT ![zoneName] = c2]
                    /\ IF FALSE
                       THEN /\ pending' = rest
                            /\ UNCHANGED <<pc, curZone, recs, queue, calls,
                                           zoneErr, firstErr>>
                       ELSE \E ok \in Outcomes :
                            /\ calls' = Append(calls,
                                   Call("list", zoneName, 0, <<>>, ok))
                            /\ IF ~ok
                               THEN /\ ZoneFailed(zoneName,
                                           Err(zoneName, "list"), rest)
                                    /\ UNCHANGED <<curZone, recs>>
                               ELSE \E rs \in ListResponses :
                                    /\ recs' = [recs EXCEPT ![zoneName] = rs]
                                    /\ curZone' = zoneName
                                    /\ queue' = PlannedWrites(c2, rs, zoneName)
                                    /\ pending' = rest
                                    /\ pc' = "writes"
                                    /\ UNCHANGED <<zoneErr, firstErr>>

\* a loop whose suppressor filters the caller's update-new list as well
NextZone_sharedList ==
    /\ pc = "zones"
    /\ \E zoneName \in pending :
        LET c    == perZoneChanges[zoneName]
            c2   == removeNoopTXTUpdates(c)
            rest == pending \ {zoneName}
        IN  /\ order' = Append(order, zoneName)
            /\ changes' = removeNoopTXTUpdates(changes)
            /\ UNCHANGED <<zones, dryRun, ctxDoneAt, result, callNo,
                           endpoints, rIdx, fnVars>>
            /\ IF ~HasChanges(c)
               THEN /\ pending' = rest
                    /\ UNCHANGED <<pc, perZoneChanges, curZone, recs, queue,
                                   calls, zoneErr, firstErr>>
               ELSE /\ perZoneChanges' = [perZoneChanges EXCEPT ![zoneName] = c2]
                    /\ IF Len(c2.Create) + Len(c2.Delete) + Len(c2.UpdateNew) = 0
                       THEN /\ pending' = rest
                            /\ UNCHANGED <<pc, curZone, recs, queue, calls,
                                           zoneErr, firstErr>>
                       ELSE \E ok \in Outcomes :
                            /\ calls' = Append(calls,
                                   Call("list", zoneName, 0, <<>>, ok))
                            /\ IF ~ok
                               THEN /\ ZoneFailed(zoneName,
                                           Err(zoneName, "list"), rest)
                                    /\ UNCHANGED <<curZone, recs>>
                               ELSE \E rs \in ListResponses :
                                    /\ recs' = [recs EXCEPT ![zoneName] = rs]
                                    /\ curZone' = zoneName
                                    /\ queue' = PlannedWrites(c2, rs, zoneName)
                                    /\ pending' = rest
                                    /\ pc' = "writes"
                                    /\ UNCHANGED <<zoneErr, firstErr>>

\* one iteration of the range loop, up to the answer of the list call; Go
\* ranges over a map in an unspecified order
NextZone ==
    /\ pc = "zones"
    /\ \E zoneName \in pending :
        LET c    == perZoneChanges[zoneName]
            c2   == removeNoopTXTUpdates(c)
            rest == pending \ {zoneName}
        IN  /\ order' = Append(order, zoneName)
            /\ UNCHANGED <<zones, dryRun, ctxDoneAt, changes, result, callNo,
                           endpoints, rIdx, fnVars>>
            /\ IF ~HasChanges(c)
               THEN /\ pending' = rest
                    /\ UNCHANGED <<pc, perZoneChanges, curZone, recs, queue,
                                   calls, zoneErr, firstErr>>
               ELSE /\ perZoneChanges' = [perZoneChanges EXCEPT ![zoneName] = c2]
                    /\ IF Len(c2.Create) + Len(c2.Delete) + Len(c2.UpdateNew) = 0
                       THEN /\ pending' = rest
                            /\ UNCHANGED <<pc, curZone, recs, queue, calls,
                                           zoneErr, firstErr>>
                       ELSE \E ok \in Outcomes :
                            /\ calls' = Append(calls,
                                   Call("list", zoneName, 0, <<>>, ok))
                            /\ IF ~ok
                               THEN /\ ZoneFailed(zoneName,
                                           Err(zoneName, "list"), rest)
                                    /\ UNCHANGED <<curZone, recs>>
                               ELSE \E rs \in ListResponses :
                                    /\ recs' = [recs EXCEPT ![zoneName] = rs]
                                    /\ curZone' = zoneName
                                    /\ queue' = PlannedWrites(c2, rs, zoneName)
                                    /\ pending' = rest
                                    /\ pc' = "writes"
                                    /\ UNCHANGED <<zoneErr, firstErr>>

\* a write loop that skips a record whose identifier does not parse
WriteCall_skip ==
    /\ pc = "writes"
    /\ queue # <<>>
    /\ UNCHANGED <<zones, dryRun, ctxDoneAt, changes, perZoneChanges, order,
                   curZone, recs, result, callNo, endpoints, rIdx, fnVars>>
    /\ LET w  == Head(queue)
           id == Atoi(w.rec.ID)
       IN  IF w.op \in {"delete", "update"} /\ ~id.ok
           THEN /\ queue' = Tail(queue)
                /\ UNCHANGED <<pc, pending, zoneErr, firstErr, calls>>
           ELSE \E ok \in Outcomes :
                /\ calls' = Append(calls,
                       Call(w.op, curZone, id.val, <<w.rec>>, ok))
                /\ IF ok
                   THEN /\ queue' = Tail(queue)
                        /\ UNCHANGED <<pc, pending, zoneErr, firstErr>>
                   ELSE ZoneFailed(curZone, Err(curZone, w.op), pending)

\* a write loop that issues a failed call once more
WriteCall_retry ==
    /\ pc = "writes"
    /\ queue # <<>>
    /\ UNCHANGED <<zones, dryRun, ctxDoneAt, changes, perZoneChanges, order,
                   curZone, recs, result, callNo, endpoints, rIdx, fnVars>>
    /\ LET w  == Head(queue)
           id == Atoi(w.rec.ID)
       IN  IF w.op \in {"delete", "update"} /\ ~id.ok
           THEN /\ ZoneFailed(curZone, Err(curZone, w.op), pending)
                /\ UNCHANGED calls
           ELSE \E ok \in Outcomes :
                /\ calls' = Append(calls,
                       Call(w.op, curZone, id.val, <<w.rec>>, ok))
                /\ IF ok \/ ~calls[Len(calls)].ok
                   THEN /\ queue' = Tail(queue)
                        /\ UNCHANGED <<pc, pending, zoneErr, firstErr>>
                   ELSE /\ UNCHANGED <<queue, pc, pending, zoneErr, firstErr>>

\* the next record of DeleteDnsRecords, CreateDnsRecords or UpdateDnsRecords
WriteCall ==
    /\ pc = "writes"
    /\ queue # <<>>
    /\ UNCHANGED <<zones, dryRun, ctxDoneAt, changes, perZoneChanges, order,
                   curZone, recs, result, callNo, endpoints, rIdx, fnVars>>
    /\ LET w  == Head(queue)
           id == Atoi(w.rec.ID)
       IN  IF w.op \in {"delete", "update"} /\ ~id.ok
           THEN /\ ZoneFailed(curZone, Err(curZone, w.op), pending)
                /\ UNCHANGED calls
           ELSE \E ok \in Outcomes :
                /\ calls' = Append(calls,
                       Call(w.op, curZone, id.val, <<w.rec>>, ok))
                /\ IF ok
                   THEN /\ queue' = Tail(queue)
                        /\ UNCHANGED <<pc, pending, zoneErr, firstErr>>
                   ELSE ZoneFailed(curZone, Err(curZone, w.op), pending)

\* applyChangesToZone returns nil after its last write
ZoneDone ==
    /\ pc = "writes"
    /\ queue = <<>>
    /\ pc' = "zones"
    /\ UNCHANGED <<zones, dryRun, ctxDoneAt, changes, perZoneChanges, pending,
                   order, curZone, recs, queue, calls, zoneErr, firstErr,
                   result, callNo, endpoints, rIdx, fnVars>>

\* an ApplyChanges that returns before the range loop is over
Return_early ==
    /\ pc = "zones"
    /\ Returned(firstErr)
    /\ UNCHANGED <<zones, dryRun, ctxDoneAt, changes, perZoneChanges, pending,
                   order, curZone, recs, queue, calls, zoneErr, firstErr,
                   callNo, endpoints, rIdx, fnVars>>

\* ApplyChanges returns firstErr once the range loop is over
Return ==
    /\ pc = "zones"
    /\ pending = {}
    /\ Returned(firstErr)
    /\ UNCHANGED <<zones, dryRun, ctxDoneAt, changes, perZoneChanges, pending,
                   order, curZone, recs, queue, calls, zoneErr, firstErr,
                   callNo, endpoints, rIdx, fnVars>>

----------------------------------------------------------------------------
(* Records.                                                                *)

\* the literal TTL Records falls back to
DefaultTTL == 600

\* strings.Split(s, ".")[0]
RECURSIVE FirstLabel(_)
FirstLabel(s) ==
    IF s = <<>> \/ Head(s) = "." THEN <<>>
    ELSE <<Head(s)>> \o FirstLabel(Tail(s))

\* endpoint.NewEndpointWithTTL with one target: a trailing dot is cut from
\* the name and from the target
NewEndpointWithTTL(dnsName, recordType, ttl, target) ==
    Endpoint(TrimSuffix(dnsName, <<".">>), recordType,
             <<TrimSuffix(target, <<".">>)>>, ttl)

\* a projection that keeps the root marker as the name
RecordToEndpoint_noApex(rec, domain) ==
    NewEndpointWithTTL(rec.Name, rec.Type,
        IF Atoi(rec.TTL).ok THEN Atoi(rec.TTL).val ELSE DefaultTTL,
        rec.Content)

\* the endpoint Records builds for one record of domain
RecordToEndpoint(rec, domain) ==
    LET name == IF FirstLabel(rec.Name) = <<"@">> THEN domain ELSE rec.Name
        ttl  == IF Atoi(rec.TTL).ok THEN Atoi(rec.TTL).val ELSE DefaultTTL
    IN  NewEndpointWithTTL(name, rec.Type, ttl, rec.Content)

\* what the list call of Records may answer with
RecordsResponses ==
    ListResponses \cup
    { << Record(<<"3">>, <<"@">>, RecordTypeA, <<"1">>, <<"3", "0", "0">>),
         Record(<<"4">>, NameFXO, RecordTypeTXT, <<"v">>, <<"a", "u", "t", "o">>) >> }

\* a Records that logs in and lists whatever the dry-run flag
Records_alwaysLogin ==
    /\ pc = "idle"
    /\ endpoints' = <<>>
    /\ UNCHANGED <<zones, dryRun, ctxDoneAt, changes, perZoneChanges, pending,
                   order, curZone, recs, queue, zoneErr, firstErr, callNo,
                   fnVars>>
    /\ \E ok \in Outcomes :
        /\ calls' = <<Call("ping", Empty, 0, <<>>, ok)>>
        /\ IF ~ok
           THEN /\ result' = Err(Empty, "ping")
                /\ pc' = "rdone"
                /\ rIdx' = 0
           ELSE /\ result' = Unset
                /\ pc' = "rzones"
                /\ rIdx' = 1

\* Records up to its loop over the configured zones
Records ==
    /\ pc = "idle"
    /\ endpoints' = <<>>
    /\ UNCHANGED <<zones, dryRun, ctxDoneAt, changes, perZoneChanges, pending,
                   order, curZone, recs, queue, zoneErr, firstErr, callNo,
                   fnVars>>
    /\ IF dryRun
       THEN /\ calls' = <<>>
            /\ result' = NoErr
            /\ pc' = "rdone"
            /\ rIdx' = 0
       ELSE \E ok \in Outcomes :
            /\ calls' = <<Call("ping", Empty, 0, <<>>, ok)>>
            /\ IF ~ok
               THEN /\ result' = Err(Empty, "ping")
                    /\ pc' = "rdone"
                    /\ rIdx' = 0
               ELSE /\ result' = Unset
                    /\ pc' = "rzones"
                    /\ rIdx' = 1

\* the map m with key k set to v
Put(m, k, v) == [x \in DOMAIN m \cup {k} |-> IF x = k THEN v ELSE m[x]]

\* a loop of Records that returns the error of a failed list call
RecordsZone_abort ==
    /\ pc = "rzones"
    /\ rIdx <= Len(zones)
    /\ rIdx' = rIdx + 1
    /\ UNCHANGED <<zones, dryRun, ctxDoneAt, changes, perZoneChanges, pending,
                   order, curZone, queue, zoneErr, firstErr, callNo, fnVars>>
    /\ \E ok \in Outcomes :
        /\ calls' = Append(calls, Call("list", zones[rIdx], 0, <<>>, ok))
        /\ IF ~ok
           THEN /\ pc' = "rdone"
                /\ result' = Err(zones[rIdx], "list")
                /\ UNCHANGED <<endpoints, recs>>
           ELSE \E rs \in RecordsResponses :
                /\ recs' = Put(recs, zones[rIdx], rs)
                /\ endpoints' = endpoints \o
                     [i \in 1..Len(rs) |-> RecordToEndpoint(rs[i], zones[rIdx])]
                /\ UNCHANGED <<pc, result>>

\* one iteration of the loop of Records; recs keeps the answer of the list
\* call
RecordsZone ==
    /\ pc = "rzones"
    /\ rIdx <= Len(zones)
    /\ rIdx' = rIdx + 1
    /\ UNCHANGED <<zones, dryRun, ctxDoneAt, changes, pc, perZoneChanges,
                   pending, order, curZone, queue, zoneErr, firstErr, result,
                   callNo, fnVars>>
    /\ \E ok \in Outcomes :
        /\ calls' = Append(calls, Call("list", zones[rIdx], 0, <<>>, ok))
        /\ IF ~ok
           THEN UNCHANGED <<endpoints, recs>>
           ELSE \E rs \in RecordsResponses :
                /\ recs' = Put(recs, zones[rIdx], rs)
                /\ endpoints' = endpoints \o
                     [i \in 1..Len(rs) |-> RecordToEndpoint(rs[i], zones[rIdx])]

\* Records returns the collected endpoints
RecordsReturn ==
    /\ pc = "rzones"
    /\ rIdx > Len(zones)
    /\ pc' = "rdone"
    /\ result' = NoErr
    /\ UNCHANGED <<zones, dryRun, ctxDoneAt, changes, perZoneChanges, pending,
                   order, curZone, recs, queue, calls, zoneErr, firstErr,
                   callNo, endpoints, rIdx, fnVars>>

----------------------------------------------------------------------------
(* Specification: a constructed provider receives one call.                *)

\* a provider that has been constructed and not yet called
InitPlan ==
    /\ pc = "idle"
    /\ changes = EmptyChanges
    /\ perZoneChanges = NoMap
    /\ pending = {}
    /\ order = <<>>
    /\ curZone = Empty
    /\ recs = NoMap
    /\ queue = <<>>
    /\ calls = <<>>
    /\ zoneErr = NoMap
    /\ firstErr = NoErr
    /\ result = Unset
    /\ callNo = 0
    /\ endpoints = <<>>
    /\ rIdx = 0
    /\ ctxDoneAt = -1

\* no helper function is called directly
FnOff ==
    /\ fnPc = "off"
    /\ fnArgs = <<>>
    /\ fnRet = <<>>

Init ==
    /\ zones \in ZoneConfigs
    /\ dryRun \in BOOLEAN
    /\ InitPlan
    /\ FnOff

Next ==
    \/ ApplyChanges
    \/ NextZone
    \/ WriteCall
    \/ ZoneDone
    \/ Return
    \/ Records
    \/ RecordsZone
    \/ RecordsReturn

Spec == Init /\ [][Next]_vars

----------------------------------------------------------------------------
(* Specification: a constructed provider is asked for its records.         *)

NextRecords ==
    \/ Records
    \/ RecordsZone
    \/ RecordsReturn

SpecRecords == Init /\ [][NextRecords]_vars

----------------------------------------------------------------------------
(* Specifications of direct calls of the helper functions: the arguments   *)
(* are drawn at the start, the call computes the return value.             *)

\* the provider itself is not called
PlanIdle ==
    /\ zones = <<ZoneXO>>
    /\ dryRun = FALSE
    /\ InitPlan

\* the characters generated names and zones are made of
Chars == {"a", "."}

\* every string of at most n characters
Strs(n) == UNION { [1..k -> Chars] : k \in 0..n }

\* every list of at most n elements of S
ListsUpTo(S, n) == UNION { [1..k -> S] : k \in 0..n }

\* endpointZoneName is called on a name and a list of non-empty zones
InitZoneName ==
    /\ PlanIdle
    /\ fnPc = "call"
    /\ fnRet = <<>>
    /\ fnArgs \in [name  : Strs(MaxStrLen + 1),
                   zones : ListsUpTo(Strs(MaxStrLen) \ {Empty}, MaxZones)]

CallEndpointZoneName ==
    /\ fnPc = "call"
    /\ fnRet' = endpointZoneName(
                    Endpoint(fnArgs.name, RecordTypeA, <<>>, 0), fnArgs.zones)
    /\ fnPc' = "ret"
    /\ UNCHANGED <<fnArgs, planVars>>

SpecZoneName == InitZoneName /\ [][CallEndpointZoneName]_vars

\* the records getIDforRecord is called on
IDRecords ==
    { Record(id, name, type, content, <<"6", "0", "0">>) :
        id \in {<<"1", "0">>, <<"1", "1">>},
        name \in {NameFXO, ZoneXO},
        type \in {RecordTypeA, RecordTypeTXT},
        content \in {<<"v">>, <<"w">>} }

\* getIDforRecord is called on a query and a list of records
InitGetID ==
    /\ PlanIdle
    /\ fnPc = "call"
    /\ fnRet = <<>>
    /\ fnArgs \in [recordName : {NameFXO, ZoneXO},
                   target     : {<<"v">>, <<"w">>},
                   recordType : {RecordTypeA, RecordTypeTXT},
                   recs       : ListsUpTo(IDRecords, MaxRecs),
                   strict     : BOOLEAN]

CallGetIDforRecord ==
    /\ fnPc = "call"
    /\ fnRet' = getIDforRecord(fnArgs.recordName, fnArgs.target,
                               fnArgs.recordType, fnArgs.recs, fnArgs.strict)
    /\ fnPc' = "ret"
    /\ UNCHANGED <<fnArgs, planVars>>

SpecGetID == InitGetID /\ [][CallGetIDforRecord]_vars

\* the endpoints of the update lists removeNoopTXTUpdates is called on
NoopEndpoints ==
    { Endpoint(NameFXO, RecordTypeTXT, <<<<"v">>>>, 300),
      Endpoint(NameFXO, RecordTypeTXT, <<<<"v">>>>, 600),
      Endpoint(NameFXO, RecordTypeTXT, <<<<"w">>>>, 300),
      Endpoint(ZoneXO,  RecordTypeTXT, <<<<"v">>, <<"w">>>>, 300),
      Endpoint(NameFXO, RecordTypeA,   <<<<"v">>>>, 300),
      Endpoint(NameFXO, RecordTypeTXT, <<>>, 300) }

\* removeNoopTXTUpdates is called on a *plan.Changes
InitNoop ==
    /\ PlanIdle
    /\ fnPc = "call"
    /\ fnRet = <<>>
    /\ fnArgs \in [Create    : {<<>>},
                   UpdateOld : ListsUpTo(NoopEndpoints, MaxUpd),
                   UpdateNew : ListsUpTo(NoopEndpoints, MaxUpd),
                   Delete    : {<<>>}]

CallRemoveNoopTXTUpdates ==
    /\ fnPc = "call"
    /\ fnRet' = removeNoopTXTUpdates(fnArgs)
    /\ fnPc' = "ret"
    /\ UNCHANGED <<fnArgs, planVars>>

SpecNoop == InitNoop /\ [][CallRemoveNoopTXTUpdates]_vars

\* the endpoints convertToPorkbunRecord is called on
ConvEndpoints ==
    { Endpoint(name, type, targets, 300) :
        name \in {ZoneXO, NameFXO, NameFxO, NameNZ},
        type \in {RecordTypeA, RecordTypeTXT},
        targets \in {<<<<"1">>>>, <<QuotedHeritage>>, <<>>} }
    \cup { Endpoint(NameFXO, RecordTypeA, <<<<"1">>, <<"2">>>>, 0),
           Endpoint(NameFSXO, RecordTypeTXT, <<<<"v">>>>, 86400) }

\* the retrieved records convertToPorkbunRecord is called with
ConvRecords ==
    { <<>>,
      << Record(<<"6">>, NameFXO, RecordTypeA,   <<"2">>, <<"3", "0", "0">>),
         Record(<<"7">>, NameFXO, RecordTypeA,   <<"1">>, <<"3", "0", "0">>),
         Record(<<"8">>, <<"f">>, RecordTypeTXT, <<"1">>, <<"3", "0", "0">>),
         Record(<<"9">>, ZoneXO,  RecordTypeTXT,
                Trim(QuotedHeritage, "\""), <<"3", "0", "0">>) >> }

\* convertToPorkbunRecord is called on a list of endpoints of zone "x.o"
InitConvert ==
    /\ PlanIdle
    /\ fnPc = "call"
    /\ fnRet = <<>>
    /\ fnArgs \in [recs     : ConvRecords,
                   eps      : ListsUpTo(ConvEndpoints, MaxConv),
                   zoneName : {ZoneXO},
                   strict   : BOOLEAN]

CallConvertToPorkbunRecord ==
    /\ fnPc = "call"
    /\ fnRet' = convertToPorkbunRecord(fnArgs.recs, fnArgs.eps,
                                       fnArgs.zoneName, fnArgs.strict)
    /\ fnPc' = "ret"
    /\ UNCHANGED <<fnArgs, planVars>>

SpecConvert == InitConvert /\ [][CallConvertToPorkbunRecord]_vars

\* the records Records projects and convertToPorkbunRecord converts back
RoundTripRecords ==
    { Record(<<"5">>, name, type, content, ttl) :
        name \in {NameFXO, ZoneXO, <<"@">>, <<"f">>, NameFXO \o <<".">>},
        type \in {RecordTypeA, RecordTypeTXT},
        content \in {<<"1">>, <<"1", ".">>, QuotedHeritage,
                     Trim(QuotedHeritage, "\"")},
        ttl \in {<<"3", "0", "0">>, <<"0", "3", "0">>, <<"a", "u", "t", "o">>,
                 Empty} }

\* a record listed for zone "x.o" is projected the way Records does it
InitRoundTrip ==
    /\ PlanIdle
    /\ fnPc = "call"
    /\ fnRet = <<>>
    /\ fnArgs \in [rec : RoundTripRecords, zone : {ZoneXO}]

\* the endpoint of Records, and the record convertToPorkbunRecord makes of
\* it in the same zone
CallRoundTrip ==
    /\ fnPc = "call"
    /\ LET ep == RecordToEndpoint(fnArgs.rec, fnArgs.zone)
       IN  fnRet' = [ep   |-> ep,
                     back |-> convertToPorkbunRecord(<<>>, <<ep>>, fnArgs.zone,
                                                     FALSE)]
    /\ fnPc' = "ret"
    /\ UNCHANGED <<fnArgs, planVars>>

SpecRoundTrip == InitRoundTrip /\ [][CallRoundTrip]_vars

\* NewPorkbunProvider is called
InitNew ==
    /\ PlanIdle
    /\ fnPc = "call"
    /\ fnRet = <<>>
    /\ fnArgs \in [domainFilterList : ListsUpTo({ZoneXO, ZoneSXO}, MaxZones),
                   apiKey           : {Empty, <<"K">>},
                   apiSecret        : {Empty, <<"P">>},
                   dryRun           : BOOLEAN,
                   logger           : {NilLogger, SomeLogger}]

CallNewPorkbunProvider ==
    /\ fnPc = "call"
    /\ fnRet' = NewPorkbunProvider(fnArgs.domainFilterList, fnArgs.apiKey,
                                   fnArgs.apiSecret, fnArgs.dryRun,
                                   fnArgs.logger)
    /\ fnPc' = "ret"
    /\ UNCHANGED <<fnArgs, planVars>>

SpecNew == InitNew /\ [][CallNewPorkbunProvider]_vars

----------------------------------------------------------------------------
(* Specification: the caller applies a batch of unchanged TXT update pairs *)
(* and then applies the same batch again.                                  *)

\* the TXT endpoints the update pairs are made of
PairEndpoints ==
    { Endpoint(ZoneXO, RecordTypeTXT, targets, ttl) :
        targets \in {<<<<"v">>>>, <<<<"v">>, <<"w">>>>}, ttl \in {300, 600} }
    \cup { Endpoint(NameFSXO, RecordTypeTXT, <<<<"v">>>>, 300) }

\* update-new entry n has the name, first target and TTL of update-old
\* entry o, both being TXT entries with a target
SameTXT(o, n) ==
    /\ o.RecordType = RecordTypeTXT
    /\ n.RecordType = RecordTypeTXT
    /\ Len(o.Targets) > 0
    /\ Len(n.Targets) > 0
    /\ o.DNSName = n.DNSName
    /\ o.Targets[1] = n.Targets[1]
    /\ o.RecordTTL = n.RecordTTL

\* the (update-old, update-new) pairs of unchanged TXT entries
NoopPairs == {p \in PairEndpoints \X PairEndpoints : SameTXT(p[1], p[2])}

\* the batches of at most MaxPairs such pairs
NoopPairBatches ==
    { [Create    |-> <<>>,
       UpdateOld |-> [i \in 1..Len(ps) |-> ps[i][1]],
       UpdateNew |-> [i \in 1..Len(ps) |-> ps[i][2]],
       Delete    |-> <<>>] : ps \in ListsUpTo(NoopPairs, MaxPairs) }

\* the caller applies a batch of unchanged TXT update pairs
ApplyNoopPairs ==
    /\ pc = "idle"
    /\ \E c \in NoopPairBatches : ApplyChangesOn(c)

\* the caller applies the same batch once more
ApplyAgain ==
    /\ pc = "done"
    /\ callNo < MaxCalls
    /\ ApplyChangesOn(changes)

NextIdem ==
    \/ ApplyNoopPairs
    \/ ApplyAgain
    \/ NextZone
    \/ WriteCall
    \/ ZoneDone
    \/ Return

SpecIdem == Init /\ [][NextIdem]_vars

----------------------------------------------------------------------------
(* Specification: the caller applies one batch after the other.            *)

\* the endpoints a batch of the sequence creates
SeqCreates ==
    { Endpoint(NameFxO, RecordTypeA,   <<<<"1">>>>, 300),
      Endpoint(ZoneXO,  RecordTypeTXT, <<<<"v">>>>, 300) }

\* the endpoints a batch of the sequence updates or deletes
SeqChanged ==
    { Endpoint(NameFXO,  RecordTypeA, <<<<"1">>>>, 300),
      Endpoint(NameFSXO, RecordTypeA, <<<<"1">>>>, 300) }

\* the lists of at most one endpoint of S
UpToOne(S) == {<<>>} \cup {<<ep>> : ep \in S}

\* the batches of the sequence: a create list, an update-new list and a
\* delete list, the update-old list being empty
SeqBatches ==
    { [Create |-> cr, UpdateOld |-> <<>>, UpdateNew |-> up, Delete |-> de] :
        cr \in UpToOne(SeqCreates), up \in UpToOne(SeqChanged),
        de \in UpToOne(SeqChanged) }

\* the caller applies a batch, the first or one more
ApplyChangesSeq ==
    /\ pc \in {"idle", "done"}
    /\ callNo < MaxCalls
    /\ \E c \in SeqBatches : ApplyChangesOn(c)

NextSeq ==
    \/ ApplyChangesSeq
    \/ NextZone
    \/ WriteCall
    \/ ZoneDone
    \/ Return

SpecSeq == Init /\ [][NextSeq]_vars

----------------------------------------------------------------------------
(* Specification: the caller cancels ctx while ApplyChanges runs.          *)

\* the caller applies a batch
ApplyChangesCtx ==
    /\ pc = "idle"
    /\ \E c \in SeqBatches : ApplyChangesOn(c)

\* the caller cancels ctx during the range loop of ApplyChanges
Cancel ==
    /\ pc \in {"zones", "writes"}
    /\ ~CtxDone
    /\ ctxDoneAt' = Len(calls)
    /\ UNCHANGED <<zones, dryRun, changes, pc, perZoneChanges, pending, order,
                   curZone, recs, queue, calls, zoneErr, firstErr, result,
                   callNo, endpoints, rIdx, fnVars>>

NextCancel ==
    \/ ApplyChangesCtx
    \/ Cancel
    \/ NextZone
    \/ WriteCall
    \/ ZoneDone
    \/ Return

SpecCancel == Init /\ [][NextCancel]_vars

----------------------------------------------------------------------------
(* Specification: the caller applies a batch of updates.                   *)

\* the endpoints the update lists are made of
UpdEndpoints ==
    { Endpoint(ZoneXO,   RecordTypeTXT, <<<<"v">>>>, 300),
      Endpoint(ZoneXO,   RecordTypeTXT, <<>>, 300),
      Endpoint(NameFSXO, RecordTypeA,   <<<<"1">>>>, 300) }

\* the create and delete lists that come with the updates: none, or one
\* endpoint each
UpdOthers ==
    { <<Empty, Empty>>,
      << <<Endpoint(NameFXO, RecordTypeA, <<<<"1">>>>, 300)>>,
         <<Endpoint(NameFSXO, RecordTypeA, <<<<"1">>>>, 300)>> >> }

\* the batches of updates: at most one update-old entry and at most
\* MaxUpd update-new entries
UpdBatches ==
    { [Create |-> cd[1], UpdateOld |-> old, UpdateNew |-> new,
       Delete |-> cd[2]] :
        cd \in UpdOthers, old \in UpToOne(UpdEndpoints),
        new \in ListsUpTo(UpdEndpoints, MaxUpd) }

\* the caller applies a batch of updates
ApplyUpdates ==
    /\ pc = "idle"
    /\ \E c \in UpdBatches : ApplyChangesOn(c)

NextUpd ==
    \/ ApplyUpdates
    \/ NextZone
    \/ WriteCall
    \/ ZoneDone
    \/ Return

SpecUpd == Init /\ [][NextUpd]_vars

\* the same, every step of the call being taken in the end: the code runs
\* the loop and its calls one after the other, and each client call returns
SpecUpdLive ==
    /\ SpecUpd
    /\ WF_vars(NextZone)
    /\ WF_vars(WriteCall)
    /\ WF_vars(ZoneDone)
    /\ WF_vars(Return)

----------------------------------------------------------------------------
(* Specification: a constructed provider receives one call, ApplyChanges   *)
(* on a batch of updates or Records.                                       *)

NextLogin ==
    \/ ApplyUpdates
    \/ NextZone
    \/ WriteCall
    \/ ZoneDone
    \/ Return
    \/ Records
    \/ RecordsZone
    \/ RecordsReturn

SpecLogin == Init /\ [][NextLogin]_vars

----------------------------------------------------------------------------
(* Properties.                                                             *)

\* ApplyChanges has logged in and reached or finished its range loop
Applying == pc \in {"zones", "writes", "done"} /\ calls # <<>> /\ calls[1].ok

\* ApplyChanges has returned after a successful login
AppliedAll == pc = "done" /\ calls # <<>> /\ calls[1].ok

\* the calls issued for zone z, in order
ZoneCalls(z) == SelectSeq(calls, LAMBDA c : c.zone = z)

\* position of a provider call in the order list, delete, create, update
OpRank(op) ==
    IF op = "list" THEN 0
    ELSE IF op = "delete" THEN 1
    ELSE IF op = "create" THEN 2
    ELSE 3

\* z is the end of s
IsSuffixOf(z, s) == \E k \in 0..Len(s) : SubSeq(s, k + 1, Len(s)) = z

\* the i-th smallest element of the set of numbers I
NthIndex(I, i) == CHOOSE j \in I : Cardinality({k \in I : k < j}) = i - 1

\* the elements of list at the positions I, in the order of list
SubList(list, I) == [i \in 1..Cardinality(I) |-> list[NthIndex(I, i)]]

\* the longest zone of zs that ends name, or the empty string
LongestZone(name, zs) ==
    LET S == {z \in Range(zs) : IsSuffixOf(z, name)}
    IN  IF S = {} THEN Empty
        ELSE CHOOSE z \in S : \A y \in S : Len(y) <= Len(z)

\* C1: in every ApplyChanges call, the calls issued for one zone come in the
\* order list, deletes, creates, updates: every write of a zone follows the
\* zone's single list call, no delete follows a create or an update, and no
\* create follows an update of the same zone.
C1_CallOrder ==
    pc \in {"zones", "writes", "done"} =>
      \A j \in 1..Len(calls) :
        calls[j].op # "ping" =>
          /\ calls[j].op # "list" =>
               \E i \in 1..(j - 1) :
                 calls[i].zone = calls[j].zone /\ calls[i].op = "list"
          /\ \A i \in 1..(j - 1) :
               calls[i].zone = calls[j].zone =>
                 /\ calls[j].op # "list"
                 /\ OpRank(calls[i].op) <= OpRank(calls[j].op)

\* a zone received its list call, then a delete, then a create
C1_Witness ==
    /\ pc = "done"
    /\ \E i, j \in 1..Len(calls) :
         /\ i < j
         /\ calls[i].zone = calls[j].zone
         /\ calls[i].op = "delete"
         /\ calls[j].op = "create"

\* the writes zc (after its first call) are the start of plan, each call but
\* the last having succeeded
FollowsPlan(zc, plan) ==
    /\ Len(zc) - 1 <= Len(plan)
    /\ \A i \in 2..Len(zc) :
         /\ zc[i].op = plan[i - 1].op
         /\ zc[i].rec = <<plan[i - 1].rec>>
         /\ i < Len(zc) => zc[i].ok

\* zc ends where applyChangesToZone ends: at a failed call, before a record
\* whose identifier does not parse, or with the plan exhausted
StopsWherePlanStops(zc, plan) ==
    LET n == Len(zc) - 1
    IN  \/ ~zc[Len(zc)].ok
        \/ /\ zc[Len(zc)].ok
           /\ \/ n = Len(plan)
              \/ /\ n < Len(plan)
                 /\ plan[n + 1].op \in {"delete", "update"}
                 /\ ~Atoi(plan[n + 1].rec.ID).ok

\* the calls of zone z are those its own bucket and its own answers lead to
ZoneCallsAreOwn(z) ==
    LET c    == Partition(changes, zones)[z]
        c2   == removeNoopTXTUpdates(c)
        zc   == ZoneCalls(z)
        plan == PlannedWrites(c2, recs[z], z)
    IN  IF ~HasChanges(c) \/ Len(c2.Create) + Len(c2.Delete) + Len(c2.UpdateNew) = 0
        THEN zc = <<>>
        ELSE /\ zc # <<>>
             /\ zc[1].op = "list"
             /\ IF ~zc[1].ok THEN Len(zc) = 1
                ELSE FollowsPlan(zc, plan) /\ StopsWherePlanStops(zc, plan)

\* C2: when ApplyChanges has returned, every zone with changes has received
\* its list call and then its planned writes up to its own first failure and
\* nothing after it, whatever happened to the other zones.
C2_ZoneIsolation ==
    AppliedAll => \A z \in Range(zones) : ZoneCallsAreOwn(z)

\* a zone failed and a zone visited after it still received a list call and
\* a write
C2_Witness ==
    /\ AppliedAll
    /\ \E i, j \in 1..Len(order) :
         /\ i < j
         /\ zoneErr[order[i]] # NoErr
         /\ Len(ZoneCalls(order[j])) >= 2

\* C3: after a successful login ApplyChanges returns nil exactly when no
\* zone failed, and otherwise the error of the first zone, in the order the
\* loop visited them, that failed.
C3_FirstError ==
    AppliedAll =>
      /\ result = NoErr <=> \A z \in Range(zones) : zoneErr[z] = NoErr
      /\ \A i \in 1..Len(order) :
           ( /\ zoneErr[order[i]] # NoErr
             /\ \A k \in 1..(i - 1) : zoneErr[order[k]] = NoErr )
           => result = zoneErr[order[i]]

\* two zones failed and the error of the first was returned
C3_Witness ==
    /\ AppliedAll
    /\ Len(order) = 2
    /\ zoneErr[order[1]] # NoErr
    /\ zoneErr[order[2]] # NoErr
    /\ result = zoneErr[order[1]]

C5_DryRun ==
    dryRun =>
      /\ calls = <<>>
      /\ pc = "done" => result = NoErr
      /\ pc = "rdone" => (result = NoErr /\ endpoints = <<>>)

\* ApplyChanges returned in dry-run on a batch that has a create in a zone
C5_Witness ==
    /\ dryRun
    /\ pc = "done"
    /\ \E z \in DOMAIN perZoneChanges : perZoneChanges[z].Create # <<>>

\* C6: endpointZoneName returns the longest of the zones that end the name,
\* and the empty string exactly when no zone ends the name.
C6_LongestSuffix ==
    fnPc = "ret" =>
      LET S == {z \in Range(fnArgs.zones) : IsSuffixOf(z, fnArgs.name)}
      IN  /\ (fnRet = Empty) <=> (S = {})
          /\ S # {} => (fnRet \in S /\ \A z \in S : Len(z) <= Len(fnRet))

\* the name equals the first zone, a shorter zone after it also ends the
\* name, and the first zone was returned
C6_Witness ==
    /\ fnPc = "ret"
    /\ Len(fnArgs.zones) = 2
    /\ fnArgs.zones[1] = fnArgs.name
    /\ Len(fnArgs.zones[2]) < Len(fnArgs.zones[1])
    /\ IsSuffixOf(fnArgs.zones[2], fnArgs.name)
    /\ fnRet = fnArgs.zones[1]

\* the positions of list whose endpoint belongs to zone z
ZoneIndexes(list, z) ==
    {i \in 1..Len(list) : LongestZone(list[i].DNSName, zones) = z}

\* C7: right after partitioning, every bucket list holds exactly the
\* endpoints of the same caller list whose longest suffix zone is the
\* bucket's zone, in the caller's order (an endpoint of no zone is in no
\* bucket, and no error is raised); and every write issued for a zone
\* carries a record converted from that zone's bucket.
C7_Partition ==
    /\ (DOMAIN perZoneChanges # {} /\ order = <<>>) =>
         /\ firstErr = NoErr
         /\ result \in {NoErr, Unset}
         /\ DOMAIN perZoneChanges = Range(zones)
         /\ \A z \in Range(zones) : \A kind \in ChangeKinds :
              perZoneChanges[z][kind] =
                SubList(changes[kind], ZoneIndexes(changes[kind], z))
    /\ Applying =>
         \A z \in Range(zones) :
           LET zw == SelectSeq(calls, LAMBDA c :
                              /\ c.zone = z
                              /\ c.op \in {"delete", "create", "update"})
               W  == Range(PlannedWrites(perZoneChanges[z], recs[z], z))
           IN  \A j \in 1..Len(zw) :
                 \E w \in W : w.op = zw[j].op /\ <<w.rec>> = zw[j].rec

\* two zones are configured, a create list of two endpoints was split
\* between the nested zone and its parent
C7_Witness ==
    /\ DOMAIN perZoneChanges # {}
    /\ order = <<>>
    /\ Len(zones) = 2
    /\ Len(changes.Create) = 2
    /\ Len(perZoneChanges[ZoneXO].Create) = 1
    /\ Len(perZoneChanges[ZoneSXO].Create) = 1

\* the positions of the records of rs that qualify for the query
Matching(rs, name, target, type, strict) ==
    {i \in 1..Len(rs) :
        /\ rs[i].Type = type
        /\ rs[i].Name = name
        /\ strict => rs[i].Content = target}

\* C8: getIDforRecord returns the identifier of the first record, in list
\* order, with the type and name of the query and, when strict, with the
\* target as content; it returns the empty string when there is none.
C8_FirstMatch ==
    fnPc = "ret" =>
      LET M == Matching(fnArgs.recs, fnArgs.recordName, fnArgs.target,
                        fnArgs.recordType, fnArgs.strict)
      IN  IF M = {} THEN fnRet = Empty
          ELSE fnRet = fnArgs.recs[NthIndex(M, 1)].ID

\* a strict call skipped a first record of the same name and type whose
\* content differs and returned the identifier of the second
C8_Witness ==
    /\ fnPc = "ret"
    /\ fnArgs.strict
    /\ Len(fnArgs.recs) = 2
    /\ fnArgs.recs[1].Name = fnArgs.recordName
    /\ fnArgs.recs[1].Type = fnArgs.recordType
    /\ fnArgs.recs[1].Content # fnArgs.target
    /\ fnArgs.recs[1].ID # fnArgs.recs[2].ID
    /\ fnRet = fnArgs.recs[2].ID

\* update-old holds a TXT entry with the name, first target and TTL of e
HasSameOld(updateOld, e) ==
    \E i \in 1..Len(updateOld) :
      /\ updateOld[i].RecordType = RecordTypeTXT
      /\ Len(updateOld[i].Targets) > 0
      /\ updateOld[i].DNSName = e.DNSName
      /\ updateOld[i].Targets[1] = e.Targets[1]
      /\ updateOld[i].RecordTTL = e.RecordTTL

\* C9: removeNoopTXTUpdates removes a TXT update-new entry that has a
\* target if and only if update-old holds a TXT entry with the same name,
\* the same first target and the same TTL.
C9_RemovedIffSameOld ==
    fnPc = "ret" =>
      \A i \in 1..Len(fnArgs.UpdateNew) :
        LET e == fnArgs.UpdateNew[i]
        IN  (e.RecordType = RecordTypeTXT /\ Len(e.Targets) > 0) =>
              ( (e \notin Range(fnRet.UpdateNew))
                  <=> HasSameOld(fnArgs.UpdateOld, e) )

\* the batch c is made of TXT update pairs whose update-new entry has the
\* name, first target and TTL of its update-old entry
IsNoopPairBatch(c) ==
    /\ c.Create = <<>>
    /\ c.Delete = <<>>
    /\ Len(c.UpdateOld) = Len(c.UpdateNew)
    /\ \A i \in 1..Len(c.UpdateNew) : SameTXT(c.UpdateOld[i], c.UpdateNew[i])

\* C10: when a batch of TXT update pairs whose update-new entry has the
\* name, first target and TTL of its update-old entry is applied a second
\* time, the second ApplyChanges call issues no create, update or delete.
C10_SecondCallWritesNothing ==
    (callNo >= 2 /\ IsNoopPairBatch(changes)) =>
      \A j \in 1..Len(calls) : calls[j].op \notin {"delete", "create", "update"}

\* the endpoints of eps that have a target, in order
WithTargets(eps) == SelectSeq(eps, LAMBDA ep : Len(ep.Targets) > 0)

\* the name of an endpoint relative to zone z: empty for the zone itself,
\* the name without the ending "."+z when it has that ending
RelativeName(name, z) ==
    IF name = z THEN Empty
    ELSE IF HasSuffix(name, <<".">> \o z)
    THEN SubSeq(name, 1, Len(name) - Len(z) - 1)
    ELSE name

\* s is the decimal representation of the number n
IsDecimalOf(s, n) ==
    /\ Atoi(s).ok
    /\ Atoi(s).val = n
    /\ s[1] \notin {"+", "-"} \/ n < 0
    /\ Len(s) > 1 => s[1] # "0"

\* record r has the relative name, the type and the TTL of endpoint ep
NameTypeTTLOf(r, ep, z) ==
    /\ r.Name = RelativeName(ep.DNSName, z)
    /\ r.Type = ep.RecordType
    /\ IsDecimalOf(r.TTL, ep.RecordTTL)

\* the content the converter gives the first target t of a record of type
\* type: a TXT target that starts with "heritage= loses the double quotes
\* at both ends
ContentOf(t, type) ==
    IF type = RecordTypeTXT /\ HasPrefix(t, HeritagePrefix)
    THEN Trim(t, "\"")
    ELSE t

\* C11 as stated: convertToPorkbunRecord returns one record per endpoint
\* that has a target, in order, with the zone-relative name, the type, the
\* decimal TTL and, as content, the first target of the endpoint.
C11_ContentIsFirstTarget ==
    fnPc = "ret" =>
      LET eps == WithTargets(fnArgs.eps)
      IN  /\ Len(fnRet) = Len(eps)
          /\ \A i \in 1..Len(eps) :
               /\ NameTypeTTLOf(fnRet[i], eps[i], fnArgs.zoneName)
               /\ fnRet[i].Content = eps[i].Targets[1]

\* C11, amended: convertToPorkbunRecord returns one record per endpoint
\* that has a target, in order, with the zone-relative name, the type and
\* the decimal TTL of the endpoint; the content is the first target,
\* except that a TXT target starting with "heritage= has the double quotes
\* at its ends removed.
C11_FieldMapping ==
    fnPc = "ret" =>
      LET eps == WithTargets(fnArgs.eps)
      IN  /\ Len(fnRet) = Len(eps)
          /\ \A i \in 1..Len(eps) :
               /\ NameTypeTTLOf(fnRet[i], eps[i], fnArgs.zoneName)
               /\ fnRet[i].Content =
                      ContentOf(eps[i].Targets[1], eps[i].RecordType)

\* an endpoint without target was skipped, and the endpoint after it, a
\* TXT endpoint of a name under the zone with a quoted heritage target, was
\* converted
C11_Witness ==
    /\ fnPc = "ret"
    /\ Len(fnArgs.eps) = 2
    /\ Len(fnArgs.eps[1].Targets) = 0
    /\ fnArgs.eps[2] = Endpoint(NameFXO, RecordTypeTXT, <<QuotedHeritage>>, 300)
    /\ Len(fnRet) = 1
    /\ fnRet[1].Name = <<"f">>
    /\ fnRet[1].Content = Trim(QuotedHeritage, "\"")

\* the provider calls that write: delete, create, update
IsWrite(c) == c.op \in {"delete", "create", "update"}

\* C12: every record ApplyChanges hands to a provider write for zone z has
\* a name that is empty or does not end with z.
C12_NameWithoutZone ==
    \A j \in 1..Len(calls) :
      IsWrite(calls[j]) =>
        \/ calls[j].rec[1].Name = Empty
        \/ ~HasSuffix(calls[j].rec[1].Name, calls[j].zone)

\* a successful list call for the zone of call j precedes call j
ListedBefore(j) ==
    \E i \in 1..(j - 1) :
      calls[i].op = "list" /\ calls[i].zone = calls[j].zone /\ calls[i].ok

\* C13: in every ApplyChanges call of a sequence, each identifier passed
\* to a provider delete or update call for a zone is the (parsed)
\* identifier of a record that the list call made for that zone earlier in
\* the same ApplyChanges call returned.
C13_IdFromThisCallsList ==
    \A j \in 1..Len(calls) :
      calls[j].op \in {"delete", "update"} =>
        /\ ListedBefore(j)
        /\ \E r \in Range(recs[calls[j].zone]) :
             Atoi(r.ID).ok /\ Atoi(r.ID).val = calls[j].id

\* in a second ApplyChanges call a delete was issued with the identifier
\* of the listed record with the endpoint's content, and then an update
\* with the identifier of the first listed record of that name and type
C13_Witness ==
    /\ callNo = 2
    /\ \E i, j \in 1..Len(calls) :
         /\ i < j
         /\ calls[i].op = "delete" /\ calls[i].id = 7
         /\ calls[j].op = "update" /\ calls[j].id = 6
         /\ calls[i].zone = calls[j].zone

\* the positions of plan that hold a delete or an update of a record whose
\* identifier is not a number
BadIds(plan) ==
    {k \in 1..Len(plan) :
       plan[k].op \in {"delete", "update"} /\ ~Atoi(plan[k].rec.ID).ok}

\* the writes applyChangesToZone planned for zone z in this call
ZonePlan(z) == PlannedWrites(perZoneChanges[z], recs[z], z)

\* C14: when ApplyChanges has returned, no delete or update call carries a
\* record whose identifier is not a number; and a zone whose planned writes
\* hold such a record at position k has received no write for position k
\* or any later position, and has an error, which is the error of that
\* delete or update step when every write before position k succeeded.
C14_BadIdStopsZone ==
    AppliedAll =>
      /\ \A j \in 1..Len(calls) :
           calls[j].op \in {"delete", "update"} =>
             Atoi(calls[j].rec[1].ID).ok
      /\ \A z \in Range(zones) :
           LET zc   == ZoneCalls(z)
               plan == ZonePlan(z)
               bad  == BadIds(plan)
               k    == NthIndex(bad, 1)
           IN  (zc # <<>> /\ zc[1].ok /\ bad # {}) =>
                 /\ Len(zc) - 1 < k
                 /\ zoneErr[z] # NoErr
                 /\ (Len(zc) = k /\ zc[k].ok) =>
                      zoneErr[z] = Err(z, plan[k].op)

\* a zone's delete set held a record whose identifier is not a number,
\* followed by a create: the zone received its list call and nothing else,
\* and ApplyChanges returned the zone's delete error
C14_Witness ==
    /\ AppliedAll
    /\ \E z \in Range(zones) :
         /\ Len(ZoneCalls(z)) = 1
         /\ ZoneCalls(z)[1].ok
         /\ Len(ZonePlan(z)) >= 2
         /\ 1 \in BadIds(ZonePlan(z))
         /\ ZonePlan(z)[1].rec.ID # Empty
         /\ ZonePlan(z)[2].op = "create"
         /\ zoneErr[z] = Err(z, "delete")
         /\ result = Err(z, "delete")

\* the call that observed the cancellation: the first one issued after it
Observed == ctxDoneAt + 1

\* C15: once a provider call has observed the cancellation of ctx, the
\* zone of that call ends with an error, and every later provider call is
\* for a zone that had received a call before.
C15_NoCallForUnstartedZone ==
    (CtxDone /\ Len(calls) >= Observed) =>
      /\ pc \in {"zones", "done"} => zoneErr[calls[Observed].zone] # NoErr
      /\ \A j \in (Observed + 1)..Len(calls) :
           \E i \in 1..Observed : calls[i].zone = calls[j].zone

\* the endpoints of the records rs listed for zone z
ZoneEndpoints(rs, z) == [i \in 1..Len(rs) |-> RecordToEndpoint(rs[i], z)]

\* the endpoints of the zones zs[1..n] whose list call succeeded, in order;
\* the list call of zs[i] is calls[i + 1]
RECURSIVE ListedEndpoints(_, _)
ListedEndpoints(zs, n) ==
    IF n = 0 THEN <<>>
    ELSE ListedEndpoints(zs, n - 1) \o
         (IF calls[n + 1].ok THEN ZoneEndpoints(recs[zs[n]], zs[n]) ELSE <<>>)

\* Records has returned after a successful login
RecordsDone == pc = "rdone" /\ calls # <<>> /\ calls[1].ok

\* C16: when Records returns after a successful login, it returns nil, it
\* has issued one list call per configured zone, in order, whatever the
\* earlier list calls answered, and the endpoints are those of the records
\* of the zones whose list call succeeded: a zone whose list call failed
\* contributes none.
C16_ListFailureSkipsZone ==
    RecordsDone =>
      /\ result = NoErr
      /\ Len(calls) = 1 + Len(zones)
      /\ \A i \in 1..Len(zones) :
           calls[i + 1].op = "list" /\ calls[i + 1].zone = zones[i]
      /\ endpoints = ListedEndpoints(zones, Len(zones))

\* the list call of the first of two zones failed, the second zone was
\* listed and its records are the endpoints returned
C16_Witness ==
    /\ RecordsDone
    /\ Len(zones) = 2
    /\ ~calls[2].ok
    /\ calls[3].ok
    /\ endpoints # <<>>
    /\ endpoints = ZoneEndpoints(recs[zones[2]], zones[2])
    /\ result = NoErr

\* the name of record r relative to zone z: empty for the root marker
RecordRelativeName(r, z) ==
    IF FirstLabel(r.Name) = <<"@">> THEN Empty ELSE RelativeName(r.Name, z)

\* s without one ending dot
WithoutDot(s) ==
    IF s # <<>> /\ s[Len(s)] = "." THEN SubSeq(s, 1, Len(s) - 1) ELSE s

EmptySetting ==
    \/ fnArgs.domainFilterList = <<>>
    \/ fnArgs.apiKey = Empty
    \/ fnArgs.apiSecret = Empty

\* NewPorkbunProvider returned an error and no provider
Failed == fnRet.err /\ fnRet.p = NilProvider

\* NewPorkbunProvider returned a provider and no error
Succeeded == ~fnRet.err /\ fnRet.p # NilProvider

\* C18 as stated: NewPorkbunProvider returns an error and no provider when
\* the zone filter, the API key or the API secret is empty, and a provider
\* and no error for every other input.
C18_ErrorIffEmptySetting ==
    fnPc = "ret" => IF EmptySetting THEN Failed ELSE Succeeded

\* C18, amended: NewPorkbunProvider returns an error and no provider when
\* the logger is nil or the zone filter, the API key or the API secret is
\* empty, and for every other input a provider with the given zones and
\* dry-run flag, and no error.
C18_ErrorIffEmptyOrNoLogger ==
    fnPc = "ret" =>
      IF fnArgs.logger = NilLogger \/ EmptySetting THEN Failed
      ELSE /\ Succeeded
           /\ fnRet.p.domainFilter = fnArgs.domainFilterList
           /\ fnRet.p.dryRun = fnArgs.dryRun

\* a call with zones, key and secret but a nil logger failed
C18_Witness ==
    /\ fnPc = "ret"
    /\ ~EmptySetting
    /\ fnArgs.logger = NilLogger
    /\ Failed

\* the endpoints of bucket c that are converted, in the order of the writes
WrittenEndpoints(c) ==
    LET Tag(op, eps) == [i \in 1..Len(eps) |-> [op |-> op, ep |-> eps[i]]]
    IN  Tag("delete", WithTargets(c.Delete))
        \o Tag("create", WithTargets(c.Create))
        \o Tag("update", WithTargets(c.UpdateNew))

\* the identifier the snapshot rs holds for endpoint ep: that of the first
\* record with the name and type of ep and, when strict, with its content
SnapshotId(rs, ep, strict) ==
    LET M == Matching(rs, ep.DNSName,
                      ContentOf(ep.Targets[1], ep.RecordType), ep.RecordType,
                      strict)
    IN  IF M = {} THEN Empty ELSE rs[NthIndex(M, 1)].ID

\* C19: a zone that ApplyChanges applies receives exactly one list call,
\* before its writes, and the identifier in every write is the one the
\* answer of that list call holds for the endpoint written: resolved with
\* name, type and content for a delete, with name and type for a create
\* or an update.
C19_OneSnapshot ==
    Applying =>
      \A z \in Range(zones) :
        LET zc == ZoneCalls(z)
            we == WrittenEndpoints(perZoneChanges[z])
        IN  zc # <<>> =>
              /\ zc[1].op = "list"
              /\ \A i \in 2..Len(zc) :
                   /\ zc[i].op # "list"
                   /\ i - 1 <= Len(we)
                   /\ zc[i].op = we[i - 1].op
                   /\ zc[i].rec[1].ID =
                        SnapshotId(recs[z], we[i - 1].ep, zc[i].op = "delete")

\* a zone was listed once; its delete carries the identifier of the second
\* listed record of the name, the first having another content, and its
\* update, of the same name, carries the identifier of the first
C19_Witness ==
    /\ Applying
    /\ \E z \in Range(zones) :
         LET zc == ZoneCalls(z)
         IN  /\ Len(zc) = 3
             /\ zc[2].op = "delete"
             /\ zc[3].op = "update"
             /\ zc[2].rec[1].ID = recs[z][2].ID
             /\ zc[3].rec[1].ID = recs[z][1].ID
             /\ recs[z][1].Name = recs[z][2].Name
             /\ recs[z][1].Content # recs[z][2].Content

\* the identifier of the first record of rs with the given name and type
\* and, when strict, the given content; empty when there is none
FirstId(rs, name, type, content, strict) ==
    LET M == Matching(rs, name, content, type, strict)
    IN  IF M = {} THEN Empty ELSE rs[NthIndex(M, 1)].ID

\* C20 as stated: the identifier of a converted record is that of the
\* first existing record whose name equals the zone-relative name the
\* converter computed for the endpoint, and whose type is the endpoint's
\* (and, for a delete, whose content is the converted content).
C20_MatchByRelativeName ==
    fnPc = "ret" =>
      LET eps == WithTargets(fnArgs.eps)
      IN  \A i \in 1..Len(fnRet) :
            fnRet[i].ID = FirstId(fnArgs.recs, fnRet[i].Name,
                                  eps[i].RecordType, fnRet[i].Content,
                                  fnArgs.strict)

\* C20, amended: the identifier of a converted record is that of the
\* first existing record whose name, as listed, equals the endpoint's
\* fully qualified DNS name, and whose type is the endpoint's (and, for a
\* delete, whose content is the converted content).
C20_MatchByDNSName ==
    fnPc = "ret" =>
      LET eps == WithTargets(fnArgs.eps)
      IN  \A i \in 1..Len(fnRet) :
            fnRet[i].ID = FirstId(fnArgs.recs, eps[i].DNSName,
                                  eps[i].RecordType, fnRet[i].Content,
                                  fnArgs.strict)

\* an endpoint under the zone got the identifier of a listed record with
\* the endpoint's DNS name, which is not the name of the converted record
C20_Witness ==
    /\ fnPc = "ret"
    /\ Len(fnArgs.eps) = 1
    /\ Len(fnRet) = 1
    /\ fnRet[1].ID # Empty
    /\ fnRet[1].Name # fnArgs.eps[1].DNSName
    /\ \E r \in Range(fnArgs.recs) :
         r.ID = fnRet[1].ID /\ r.Name = fnArgs.eps[1].DNSName

\* the endpoints eps, each cut down to its first target
FirstTargetOnly(eps) ==
    [i \in 1..Len(eps) |->
       IF Len(eps[i].Targets) = 0 THEN eps[i]
       ELSE [eps[i] EXCEPT !.Targets = <<eps[i].Targets[1]>>]]

\* C21: convertToPorkbunRecord returns, in the order of the endpoints, one
\* record for each endpoint that has a target and none for an endpoint
\* without target, so never more records than endpoints; each record has
\* the type of its endpoint and is built from the first target alone: the
\* result is the same when the other targets are taken away.
C21_OneRecordPerEndpoint ==
    fnPc = "ret" =>
      LET eps == WithTargets(fnArgs.eps)
      IN  /\ Len(fnRet) = Len(eps)
          /\ Len(fnRet) <= Len(fnArgs.eps)
          /\ \A i \in 1..Len(eps) :
               /\ fnRet[i].Type = eps[i].RecordType
               /\ fnRet[i].Name = RelativeName(eps[i].DNSName, fnArgs.zoneName)
          /\ fnRet = convertToPorkbunRecord(fnArgs.recs,
                         FirstTargetOnly(fnArgs.eps), fnArgs.zoneName,
                         fnArgs.strict)

\* an endpoint with two targets and an endpoint without target were
\* converted to one record, whose content is the first of the two targets
C21_Witness ==
    /\ fnPc = "ret"
    /\ Len(fnArgs.eps) = 2
    /\ Len(fnArgs.eps[1].Targets) = 2
    /\ Len(fnArgs.eps[2].Targets) = 0
    /\ Len(fnRet) = 1
    /\ fnRet[1].Content = fnArgs.eps[1].Targets[1]
    /\ fnRet[1].Content # fnArgs.eps[1].Targets[2]

\* nothing is left to do for bucket c once the no-op updates are removed
NothingToDo(c) ==
    LET c2 == removeNoopTXTUpdates(c)
    IN  Len(c2.Create) + Len(c2.Delete) + Len(c2.UpdateNew) = 0

\* the bucket of zone z as ApplyChanges partitioned the batch
Bucket(z) == Partition(changes, zones)[z]

\* C22: when ApplyChanges has returned after a successful login, a zone
\* whose create, delete and update-new lists are all empty once the no-op
\* updates are removed has received no provider call and has no error;
\* when every zone is such a zone, ApplyChanges returned nil.
C22_NothingToDoNoCall ==
    AppliedAll =>
      /\ \A z \in Range(zones) :
           NothingToDo(Bucket(z)) => (ZoneCalls(z) = <<>> /\ zoneErr[z] = NoErr)
      /\ (\A z \in Range(zones) : NothingToDo(Bucket(z))) => result = NoErr

\* a zone whose bucket holds update-old entries only received no call,
\* while the other zone was listed
C22_Witness ==
    /\ AppliedAll
    /\ \E z, y \in Range(zones) :
         /\ Bucket(z).UpdateOld # <<>>
         /\ Bucket(z).UpdateNew = <<>>
         /\ Bucket(z).Create = <<>>
         /\ Bucket(z).Delete = <<>>
         /\ ZoneCalls(z) = <<>>
         /\ zoneErr[z] = NoErr
         /\ ZoneCalls(y) # <<>>

\* the positions of the entries of list that the suppressor never removes:
\* those that are not TXT entries or have no target
NeverRemoved(list) ==
    {i \in 1..Len(list) :
       list[i].RecordType # RecordTypeTXT \/ Len(list[i].Targets) = 0}

\* sub holds the entries of list at some positions that include those of
\* I, in the order of list
KeepsInOrder(sub, list, I) ==
    \E J \in SUBSET (1..Len(list)) : I \subseteq J /\ sub = SubList(list, J)

\* the endpoint a written record was converted from is in list
ConvertedFrom(rec, list, z, strict) ==
    \E i \in 1..Len(list) :
      /\ Len(list[i].Targets) > 0
      /\ rec = <<ConvertOne(recs[z], list[i], z, strict)>>

\* C23: once the loop of ApplyChanges has handed the bucket of a zone to
\* removeNoopTXTUpdates, the bucket has the update-old, create and delete
\* lists it had, and an update-new list that holds, in their order, entries
\* of the one it had, among them every entry that is not TXT or has no
\* target; and every write call is made for an entry of the create, delete
\* or update-new list of its kind, never for an update-old entry.
C23_OnlyUpdateNewChanges ==
    Applying =>
      /\ \A z \in Range(order) :
           LET b == Bucket(z)
               c == perZoneChanges[z]
           IN  /\ c.UpdateOld = b.UpdateOld
               /\ c.Create = b.Create
               /\ c.Delete = b.Delete
               /\ KeepsInOrder(c.UpdateNew, b.UpdateNew,
                               NeverRemoved(b.UpdateNew))
      /\ \A j \in 1..Len(calls) :
           LET z == calls[j].zone
           IN  /\ calls[j].op = "update" =>
                    ConvertedFrom(calls[j].rec, Bucket(z).UpdateNew, z, FALSE)
               /\ calls[j].op = "create" =>
                    ConvertedFrom(calls[j].rec, Bucket(z).Create, z, FALSE)
               /\ calls[j].op = "delete" =>
                    ConvertedFrom(calls[j].rec, Bucket(z).Delete, z, TRUE)

\* the suppressor removed the first of two update-new entries of a zone
\* and kept the second, which is not a TXT entry with a target; the zone's
\* update-old entry is still there
C23_Witness ==
    /\ Applying
    /\ \E z \in Range(order) :
         /\ Len(Bucket(z).UpdateNew) = 2
         /\ Len(Bucket(z).UpdateOld) = 1
         /\ 2 \in NeverRemoved(Bucket(z).UpdateNew)
         /\ perZoneChanges[z].UpdateNew = <<Bucket(z).UpdateNew[2]>>
         /\ perZoneChanges[z].UpdateOld = Bucket(z).UpdateOld

\* C24: at every moment of an ApplyChanges call, the write calls a listed
\* zone has received are the first planned writes of the zone (deletes,
\* then creates, then updates, each in list order), one call per planned
\* write, with the planned record and identifier; and every call of the
\* zone before its last one succeeded: nothing follows a failed call.
C24_PrefixOfPlan ==
    Applying =>
      \A z \in Range(zones) :
        LET zc   == ZoneCalls(z)
            plan == ZonePlan(z)
        IN  (zc # <<>> /\ zc[1].ok) =>
              /\ Len(zc) - 1 <= Len(plan)
              /\ \A i \in 1..(Len(zc) - 1) :
                   /\ zc[i].ok
                   /\ zc[i + 1].op = plan[i].op
                   /\ zc[i + 1].rec = <<plan[i].rec>>
                   /\ zc[i + 1].id = Atoi(plan[i].rec.ID).val

\* ApplyChanges returned after a zone with three planned writes had its
\* delete succeed and its create fail: the update was not issued and
\* nothing was issued to undo the delete
C24_Witness ==
    /\ AppliedAll
    /\ \E z \in Range(zones) :
         LET zc == ZoneCalls(z)
         IN  /\ Len(ZonePlan(z)) = 3
             /\ Len(zc) = 3
             /\ zc[2].op = "delete" /\ zc[2].ok
             /\ zc[3].op = "create" /\ ~zc[3].ok
             /\ zoneErr[z] = Err(z, "create")

\* C25: no step of ApplyChanges after the call has started changes the
\* caller's batch: its four lists hold the same endpoints in the same
\* order until ApplyChanges has returned, with or without dry-run.
C25_BatchUntouched == [][pc # "idle" => changes' = changes]_vars

\* ApplyChanges has returned, the suppressor removed an entry from a
\* zone's update-new list, and the caller's update-new list still holds it
C25_Witness ==
    /\ pc = "done"
    /\ \E z \in Range(order) :
         /\ Len(perZoneChanges[z].UpdateNew) < Len(Bucket(z).UpdateNew)
         /\ \E e \in Range(changes.UpdateNew) :
              e \notin Range(perZoneChanges[z].UpdateNew)

\* how often the range loop visited zone z
Visits(z) == Cardinality({i \in 1..Len(order) : order[i] = z})

\* zone z was applied in full, skipped as nothing to do, or failed
Processed(z) ==
    /\ z \in DOMAIN zoneErr
    /\ Visits(z) = 1
    /\ \/ zoneErr[z] # NoErr
       \/ NothingToDo(Bucket(z)) /\ ZoneCalls(z) = <<>>
       \/ /\ Len(ZoneCalls(z)) = 1 + Len(ZonePlan(z))
          /\ \A i \in 1..Len(ZoneCalls(z)) : ZoneCalls(z)[i].ok

\* ApplyChanges has returned with every zone that has changes processed
\* once and no call made for a zone without changes
DoneWithZones ==
    /\ pc = "done"
    /\ \A z \in Range(zones) :
         IF HasChanges(Bucket(z)) THEN Processed(z) ELSE ZoneCalls(z) = <<>>

\* ApplyChanges has returned with every bucket it built that has changes
\* processed once and no call made for a zone whose bucket has none
DoneWithBuckets ==
    /\ pc = "done"
    /\ \A z \in DOMAIN perZoneChanges :
         IF HasChanges(perZoneChanges[z])
         THEN Processed(z)
         ELSE ZoneCalls(z) = <<>>

\* C26 as stated: every ApplyChanges call returns in the end, and by then
\* every zone whose bucket has changes has been processed exactly once
\* and no zone without changes has received a provider call.
C26_EveryCallProcessesZones == (callNo = 1) ~> DoneWithBuckets

\* C26, amended: every ApplyChanges call returns in the end, whatever calls
\* fail; a call that is not a dry run and whose login succeeded has by
\* then processed every zone whose bucket has changes exactly once (applied
\* in full, skipped as nothing to do, or failed) and made no provider call
\* for a zone without changes.
C26_LoggedInCallProcessesZones ==
    /\ (callNo = 1) ~> (pc = "done")
    /\ (pc \in {"zones", "writes"}) ~> DoneWithZones

\* ApplyChanges returned after one zone with changes failed and the other
\* was applied in full
C26_Witness ==
    /\ DoneWithZones
    /\ Applying
    /\ \E z, y \in Range(zones) :
         /\ zoneErr[z] # NoErr
         /\ zoneErr[y] = NoErr
         /\ Len(ZoneCalls(y)) >= 2

\* ApplyChanges was called
CalledApplyChanges == pc \in {"zones", "writes", "done"}

\* Records was called
CalledRecords == pc \in {"rzones", "rdone"}

\* the batch holds at least one endpoint
NonEmpty(c) ==
    Len(c.Create) + Len(c.UpdateOld) + Len(c.UpdateNew) + Len(c.Delete) > 0

\* the first call is a login, and the only one
LoginFirst ==
    /\ calls # <<>>
    /\ calls[1].op = "ping"
    /\ \A i \in 2..Len(calls) : calls[i].op # "ping"

\* a failed login is the only call, and the operation returned its error
FailedLoginEnds ==
    (calls # <<>> /\ calls[1].op = "ping" /\ ~calls[1].ok) =>
        /\ Len(calls) = 1
        /\ pc \in {"done", "rdone"}
        /\ result = Err(Empty, "ping")

\* C27 as stated: when not in dry-run, ApplyChanges on a non-empty batch
\* and Records first perform a login call; if it fails, the operation
\* returns that error and no list, create, update or delete call is issued.
C27_NonEmptyBatchLogsIn ==
    /\ (~dryRun /\ CalledApplyChanges /\ NonEmpty(changes)) => LoginFirst
    /\ (~dryRun /\ CalledRecords) => LoginFirst
    /\ FailedLoginEnds

\* C27, amended: when not in dry-run, Records and ApplyChanges on a batch
\* that has changes (a create, a delete, or update lists that differ) first
\* perform a login call, and ApplyChanges on any other batch performs no
\* call at all; if the login fails, the operation returns that error and
\* no list, create, update or delete call is issued.
C27_ChangedBatchLogsIn ==
    /\ (~dryRun /\ CalledApplyChanges /\ HasChanges(changes)) => LoginFirst
    /\ (CalledApplyChanges /\ ~HasChanges(changes)) =>
          (calls = <<>> /\ result = NoErr)
    /\ (~dryRun /\ CalledRecords) => LoginFirst
    /\ FailedLoginEnds

\* ApplyChanges on a batch that has changes returned the error of its
\* failed login, the only call it made
C27_Witness ==
    /\ ~dryRun
    /\ pc = "done"
    /\ HasChanges(changes)
    /\ Len(calls) = 1
    /\ calls[1].op = "ping"
    /\ ~calls[1].ok
    /\ result = Err(Empty, "ping")

\* the zones the range loop may take next whose visit issues a call
NextWithCalls ==
    { z \in pending : /\ HasChanges(perZoneChanges[z])
                      /\ ~NothingToDo(perZoneChanges[z]) }

\* C28: ApplyChanges is deterministic. The zones, the batch and the answer
\* to each call being given, every step of a run is determined: whenever
\* the range loop takes its next zone, at most one zone whose visit issues
\* calls can be the one taken, so that two runs return the same result and
\* issue the per-zone call sequences in the same zone order.
C28_Deterministic ==
    pc = "zones" => Cardinality(NextWithCalls) <= 1

====
